---- MODULE Spec2Model ----
(***************************************************************************)
(* Model of the retrieval pipeline of tds-virtual-ta:                      *)
(*   src/app.py          load_data, get_embedding, answer_question         *)
(*   src/scrape_data.py  get_embedding, scrape_github, scrape_discourse,   *)
(*                       main                                              *)
(* Indices into Python lists are kept 0-based, as in the source; At(s, i)  *)
(* reads element i of a list.                                              *)
(***************************************************************************)
EXTENDS Integers, Sequences, FiniteSets, TLC

VARIABLES
  db,             \* committed rows of table "content" in tds_data.db
  data,           \* app.py global data
  embeddings,     \* app.py global embeddings (None until load_data succeeds)
  started,        \* the startup event has run load_data
  request,        \* inputs of the last answer_question call, or None
  top_k_indices,  \* local of the last answer_question call
  top_k_data,     \* local of the last answer_question call
  response,       \* what the last answer_question call produced
  pc,             \* position of the ingestion process (scrape_data.py main)
  all_content,    \* main: github_content + discourse_posts
  txn,            \* rows INSERTed by the running main and not yet committed
  stored_count,   \* main: stored_count
  gateway_log,    \* outcome of each embedding call of the current run
  db_at_start,    \* the committed table when the current run began
  runs,           \* number of ingestion runs started
  reported,       \* the count printed by the last completed run
  fetch_in,       \* what the sources answered to the last fetcher call
  fetch_out       \* what the last fetcher call returned

qvars == <<data, embeddings, started, request, top_k_indices, top_k_data, response>>

ivars == <<pc, all_content, txn, stored_count, gateway_log, db_at_start, runs, reported>>

fvars == <<fetch_in, fetch_out>>

vars == <<db, qvars, ivars, fvars>>

\* Optional values: None, or Some(x) holding x
None == <<>>

Some(x) == <<x>>

Get(o) == o[1]

\* ---------------------------------------------------------------- bounds
\* rows of the content table a query runs against (more than TopK)
MaxDocs == 6

\* rows of that table holding the same vector (ingestion adds a row per run)
MaxCopies == 2

\* files of a repository listing
MaxFiles == 2

\* topics of a category listing
MaxTopics == 1

\* posts of a topic
MaxPosts == 1

\* ingestion runs
MaxRuns == 2

\* ------------------------------------------------------- program constants
TopK == 5

MaxAttempts == 3

\* main's window, in half-day ticks: tick 2d is 00:00:00.000 of day d and tick
\* 2d+1 a later moment of day d.  Day 0 is the day before start_date.
start_date == 2

end_date == 4

Ticks == 0 .. (end_date + 1)

\* embedding vectors (D = 2), scaled by 10 so that 0.7 is the integer 7
Vecs == {<<10, 0>>, <<0, 10>>, <<7, 7>>}

\* query vectors; <<0, 10>> is <<10, 0>> with the coordinates swapped
Queries == {<<10, 0>>, <<7, 7>>}

\* ---------------------------------------------------------------- helpers
At(s, i) == s[i + 1]

Min(a, b) == IF a <= b THEN a ELSE b

Range0(n) == 0 .. (n - 1)

\* Python truthiness of an optional list: None and [] are both falsy
Truthy(o) == o # None /\ Get(o) # <<>>

\* truthiness of the embedding column: NULL is falsy, JSON text never is
TruthyText(o) == o # None

\* json.dumps / json.loads of an embedding: the column holds text, not a list
json_dumps(v) == [json |-> v]

json_loads(t) == t.json

\* json.dumps(embedding) if embedding else None   (scrape_data.py line 169)
EmbeddingColumn(e) == IF Truthy(e) THEN Some(json_dumps(Get(e))) ELSE None

\* [f(x) for x in s if p(x)] with f = identity: Python list filter
RECURSIVE SelectTruthyEmbedding(_)
SelectTruthyEmbedding(s) ==
  IF s = <<>> THEN <<>>
  ELSE IF Truthy(Head(s).embedding)
       THEN <<Head(s)>> \o SelectTruthyEmbedding(Tail(s))
       ELSE SelectTruthyEmbedding(Tail(s))

Reverse(s) == [i \in 1 .. Len(s) |-> s[Len(s) + 1 - i]]

\* s[-k:]  (note s[-0:] is the whole list)
LastK(s, k) ==
  IF k = 0 THEN s ELSE SubSeq(s, Len(s) - Min(k, Len(s)) + 1, Len(s))

Dot(u, v) == u[1] * v[1] + u[2] * v[2]

\* ------------------------------------------------------------ app.py
\* row read back by load_data (line 51)
LoadRow(r) ==
  [id |-> r.id, source |-> r.source, url |-> r.url,
   embedding |-> IF TruthyText(r.embedding) THEN Some(json_loads(Get(r.embedding))) ELSE None]

LoadedData(rows) == [i \in 1 .. Len(rows) |-> LoadRow(rows[i])]

\* np.array([d["embedding"] for d in data if d["embedding"]])  (line 52)
EmbeddingMatrix(d) ==
  LET kept == SelectTruthyEmbedding(d)
  IN  [i \in 1 .. Len(kept) |-> Get(kept[i].embedding)]

\* np.dot(embeddings, q_embedding): raises unless the shapes align
DotRaises(m, q) == m = None \/ Len(Get(m)) = 0

similarities(m, q) == [i \in 1 .. Len(m) |-> Dot(m[i], q)]

\* np.argsort(s): indices that sort s ascending.  The default kind is an
\* unstable sort, so any order of equal scores can come out.
RECURSIVE AscendingOrders(_, _)
AscendingOrders(s, S) ==
  IF S = {} THEN {<<>>}
  ELSE UNION { { <<i>> \o p : p \in AscendingOrders(s, S \ {i}) } :
               i \in {j \in S : \A l \in S : At(s, j) <= At(s, l)} }

argsort(s) == AscendingOrders(s, Range0(Len(s)))

\* TopKOf without the [::-1]
TopKOfUnreversed(order, k) == LastK(order, k)

\* np.argsort(similarities)[-k:][::-1] for one outcome of argsort
TopKOf(order, k) == Reverse(LastK(order, k))

\* a status that is never checked
raise_for_status_skipped(ok) == FALSE

\* response.raise_for_status()
raise_for_status(ok) == ~ok

ErrorResponse == Some([status |-> "error", answer |-> None, links |-> None])

\* the startup event: load_data (lines 41-55).  A failing read leaves the
\* globals as they were.
load_data(dbOK) ==
  /\ ~started
  /\ started' = TRUE
  /\ IF dbOK
     THEN /\ data' = LoadedData(db)
          /\ embeddings' = Some(EmbeddingMatrix(LoadedData(db)))
     ELSE UNCHANGED <<data, embeddings>>
  /\ UNCHANGED <<db, request, top_k_indices, top_k_data, response, ivars, fvars>>

\* app.py get_embedding (lines 29-39): the vector, or an HTTPException
get_embedding_app(q, embedOK) ==
  IF embedOK THEN [raised |-> FALSE, value |-> Some(q)] ELSE [raised |-> TRUE, value |-> None]

\* POST /api/ : answer_question (lines 57-96), one request from start to end.
\* Every exception of the body ends in the HTTPException of line 96.
answer_question(q, embedOK, genOK, order) ==
  LET e     == get_embedding_app(q, embedOK)
      canDot == ~e.raised /\ ~DotRaises(embeddings, q)
      k     == IF canDot THEN Min(TopK, Len(Get(embeddings))) ELSE 0
      idx   == TopKOf(order, k)
      docs  == [j \in 1 .. Len(idx) |-> At(data, idx[j])]
  IN  /\ request' = Some([q |-> q, embedOK |-> embedOK, genOK |-> genOK])
      /\ top_k_indices' = IF canDot THEN Some(idx) ELSE None
      /\ top_k_data' = IF canDot THEN Some(docs) ELSE None
      /\ response' =
           IF ~canDot \/ raise_for_status(genOK)
           THEN ErrorResponse
           ELSE Some([status |-> "ok", answer |-> Some("generated"),
                      links |-> Some([j \in 1 .. Len(docs) |-> docs[j].url])])
      /\ UNCHANGED <<db, data, embeddings, started, ivars, fvars>>

\* answer_question writes no global, so requests do not influence each other:
\* one request per behaviour covers them all.
AnswerQuestion ==
  /\ started
  /\ request = None
  /\ \E q \in Queries, embedOK \in BOOLEAN, genOK \in BOOLEAN :
      \E order \in (IF embedOK /\ ~DotRaises(embeddings, q)
                    THEN argsort(similarities(Get(embeddings), q)) ELSE {<<>>}) :
        answer_question(q, embedOK, genOK, order)

LoadData == \E dbOK \in BOOLEAN : load_data(dbOK)

\* ------------------------------------------------------ scrape_data.py
\* what a request can come to: "ok", an HTTPError with status 503, an
\* HTTPError with another status (429, 403, 500, ...), or another exception
\* (timeout, connection reset)
Outcomes == {"ok", "503", "http_error", "exception"}

\* html_url of the i-th file of the listing
FileUrl(i) == <<i>>

\* f"{DISCOURSE_URL}/t/{topic_id}/{post['post_number']}"  (line 137)
PostUrl(topic_id, post_number) == <<topic_id, post_number>>

\* the loop over the listing (lines 52-61): a file is kept when it is a
\* .md/.txt file and its download answers 200
RECURSIVE GithubContent(_)
GithubContent(files) ==
  IF files = <<>> THEN <<>>
  ELSE IF Head(files).wanted /\ Head(files).download = "200"
       THEN <<[source |-> "github", url |-> Head(files).url]>> \o GithubContent(Tail(files))
       ELSE GithubContent(Tail(files))

\* a download of a wanted file raises (no status is read): caught at line 72
DownloadRaises(files) ==
  \E i \in 1 .. Len(files) : files[i].wanted /\ files[i].download = "exception"

\* the loop giving up at the first 503
GithubLoopGivingUp(attempt, tries, files, sleeps) ==
  IF attempt >= MaxAttempts
  THEN [result |-> <<>>, calls |-> attempt, sleeps |-> sleeps]
  ELSE [result |-> IF At(tries, attempt) = "ok" /\ ~DownloadRaises(files)
                   THEN GithubContent(files) ELSE <<>>,
        calls |-> attempt + 1, sleeps |-> sleeps]

\* for attempt in range(3) (lines 46-76); tries[attempt] is what the listing
\* request comes to on that attempt
RECURSIVE GithubLoop(_, _, _, _)
GithubLoop(attempt, tries, files, sleeps) ==
  IF attempt >= MaxAttempts
  THEN [result |-> <<>>, calls |-> attempt, sleeps |-> sleeps]
  ELSE LET o == At(tries, attempt) IN
       IF o = "ok"
       THEN [result |-> IF DownloadRaises(files) THEN <<>> ELSE GithubContent(files),
             calls |-> attempt + 1, sleeps |-> sleeps]
       ELSE IF o = "503"
       THEN GithubLoop(attempt + 1, tries, files, Append(sleeps, 2 ^ attempt))
       ELSE [result |-> <<>>, calls |-> attempt + 1, sleeps |-> sleeps]

scrape_github(tries, files) == GithubLoop(0, tries, files, <<>>)

\* datetime.strptime(created_at.split("T")[0], "%Y-%m-%d"): midnight of the day
DateOf(t) == (t \div 2) * 2

\* the posts of one topic that pass line 133
RECURSIVE PostsInRange(_, _, _, _)
PostsInRange(topic, posts, start, end) ==
  IF posts = <<>> THEN <<>>
  ELSE IF start <= Head(posts).created /\ Head(posts).created <= end
       THEN <<[source |-> "discourse", url |-> PostUrl(topic.id, Head(posts).post_number)]>>
            \o PostsInRange(topic, Tail(posts), start, end)
       ELSE PostsInRange(topic, Tail(posts), start, end)

\* for topic in topics (lines 123-139)
RECURSIVE DiscoursePosts(_, _, _)
DiscoursePosts(topics, start, end) ==
  IF topics = <<>> THEN <<>>
  ELSE LET t == Head(topics) IN
       IF start <= DateOf(t.created) /\ DateOf(t.created) <= end /\ t.fetch = "200"
       THEN PostsInRange(t, t.posts, start, end) \o DiscoursePosts(Tail(topics), start, end)
       ELSE DiscoursePosts(Tail(topics), start, end)

\* scrape_discourse (lines 78-144): one pass, no loop over attempts.  tries is
\* what the forum would answer to a first, second and third try; only the
\* first is ever made.
scrape_discourse(start, end, tries, topics) ==
  IF At(tries, 0) = "ok"
  THEN [result |-> DiscoursePosts(topics, start, end), calls |-> 1, sleeps |-> <<>>]
  ELSE [result |-> <<>>, calls |-> 1, sleeps |-> <<>>]

\* ---- the sources

Listings ==
  UNION { { [i \in 1 .. n |-> [url |-> FileUrl(i), wanted |-> w[i], download |-> d[i]]] :
            w \in [1 .. n -> BOOLEAN], d \in [1 .. n -> {"200", "404", "exception"}] } :
          n \in 0 .. MaxFiles }

NonDecreasing(ts) == \A i \in 1 .. Len(ts) - 1 : ts[i] <= ts[i + 1]

\* the posts of a topic come in creation order, none before the topic
PostStreams(created) ==
  UNION { { [i \in 1 .. n |-> [post_number |-> i, created |-> ts[i]]] :
            ts \in {x \in [1 .. n -> {t \in Ticks : t >= created}] : NonDecreasing(x)} } :
          n \in 0 .. MaxPosts }

TopicsOfDay ==
  UNION { { [created |-> c, fetch |-> f, posts |-> ps] :
            f \in {"200", "404"}, ps \in PostStreams(c) } :
          c \in {t \in Ticks : t = DateOf(t)} }

TopicLists ==
  UNION { { [i \in 1 .. n |-> [id |-> i, created |-> ts[i].created, fetch |-> ts[i].fetch,
                               posts |-> ts[i].posts]] : ts \in [1 .. n -> TopicsOfDay] } :
          n \in 0 .. MaxTopics }

Tries == [1 .. MaxAttempts -> Outcomes]

\* every failure of a forum request ends in the same handler (line 142)
ForumTries == [1 .. MaxAttempts -> {"ok", "http_error"}]

\* the fetchers keep no state between calls: one call per behaviour covers them
FetchGithub ==
  /\ fetch_in = None
  /\ \E tries \in Tries, files \in Listings :
    /\ fetch_in' = Some([fetcher |-> "github", tries |-> tries, files |-> files, topics |-> <<>>])
    /\ fetch_out' = Some(scrape_github(tries, files))
    /\ UNCHANGED <<db, qvars, ivars>>

FetchDiscourse ==
  /\ fetch_in = None
  /\ \E tries \in ForumTries, topics \in TopicLists :
    /\ fetch_in' = Some([fetcher |-> "discourse", tries |-> tries, files |-> <<>>, topics |-> topics])
    /\ fetch_out' = Some(scrape_discourse(start_date, end_date, tries, topics))
    /\ UNCHANGED <<db, qvars, ivars>>

\* ---- main (lines 146-174)
\* what the two sources hold while main runs: two text files, and one topic of
\* the window with a post at its creation and a post later on the last day
SourceFiles(d1, d2) ==
  <<[url |-> FileUrl(1), wanted |-> TRUE, download |-> d1],
    [url |-> FileUrl(2), wanted |-> TRUE, download |-> d2]>>

SourceTopics(f) ==
  <<[id |-> 1, created |-> start_date, fetch |-> f,
     posts |-> <<[post_number |-> 1, created |-> start_date],
                 [post_number |-> 2, created |-> end_date + 1]>>]>>

\* the values scrape_github() can return to main (line 159)
GithubContents ==
  { scrape_github(tr, SourceFiles(d1, d2)).result :
      tr \in Tries, d1 \in {"200", "404", "exception"}, d2 \in {"200", "404", "exception"} }

\* the values scrape_discourse(start_date, end_date) can return to main (line 160)
ForumPosts ==
  { scrape_discourse(start_date, end_date, tr, SourceTopics(f)).result :
      tr \in ForumTries, f \in {"200", "404"} }

\* the vector the gateway computes for an item's content
EmbedOf(item) ==
  IF item.source = "discourse" THEN <<7, 7>>
  ELSE IF item.url = FileUrl(1) THEN <<10, 0>> ELSE <<0, 10>>

\* scrape_data.py get_embedding (lines 21-38): the vector, or None on any failure
get_embedding(item, ok) == IF ok THEN Some(EmbedOf(item)) ELSE None

\* INTEGER PRIMARY KEY: one more than the largest id of the table
NextId(rows) == Len(rows) + 1

\* an INSERT that skips the items the gateway failed on
StoreItemIfEmbedded(rows, pending, item, embedding) ==
  IF embedding = None THEN pending
  ELSE Append(pending, [id |-> NextId(rows \o pending), source |-> item.source,
                        url |-> item.url, embedding |-> EmbeddingColumn(embedding)])

\* the INSERT of line 168, into the open transaction
StoreItem(rows, pending, item, embedding) ==
  Append(pending, [id |-> NextId(rows \o pending), source |-> item.source,
                   url |-> item.url, embedding |-> EmbeddingColumn(embedding)])

\* lines 148-164: open the table, scrape both sources, start the loop
MainStart ==
  /\ pc \in {"idle", "done", "crashed"}
  /\ runs < MaxRuns
  /\ \E github_content \in GithubContents, discourse_posts \in ForumPosts :
       all_content' = github_content \o discourse_posts
  /\ runs' = runs + 1
  /\ db_at_start' = db
  /\ txn' = <<>>
  /\ stored_count' = 0
  /\ gateway_log' = <<>>
  /\ reported' = None
  /\ pc' = "loop"
  /\ UNCHANGED <<db, qvars, fvars>>

\* an iteration that commits its own row
MainStepCommitting ==
  /\ pc = "loop"
  /\ Len(gateway_log) < Len(all_content)
  /\ \E ok \in BOOLEAN :
       LET item == all_content[Len(gateway_log) + 1]
           embedding == get_embedding(item, ok)
       IN  /\ db' = db \o StoreItem(db, txn, item, embedding)
           /\ gateway_log' = Append(gateway_log, ok)
  /\ txn' = <<>>
  /\ stored_count' = stored_count + 1
  /\ UNCHANGED <<pc, all_content, db_at_start, runs, reported, qvars, fvars>>

\* one iteration of the loop of lines 165-170
MainStep ==
  /\ pc = "loop"
  /\ Len(gateway_log) < Len(all_content)
  /\ \E ok \in BOOLEAN :
       LET item == all_content[Len(gateway_log) + 1]
           embedding == get_embedding(item, ok)
       IN  /\ txn' = StoreItem(db, txn, item, embedding)
           /\ gateway_log' = Append(gateway_log, ok)
  /\ stored_count' = stored_count + 1
  /\ UNCHANGED <<db, pc, all_content, db_at_start, runs, reported, qvars, fvars>>

\* lines 172-174: the only commit of the inserted rows, then the report
MainCommit ==
  /\ pc = "loop"
  /\ Len(gateway_log) = Len(all_content)
  /\ db' = db \o txn
  /\ txn' = <<>>
  /\ reported' = Some(stored_count)
  /\ pc' = "done"
  /\ UNCHANGED <<all_content, stored_count, gateway_log, db_at_start, runs, qvars, fvars>>

\* the process dies before line 172: SQLite rolls the open transaction back
Crash ==
  /\ pc = "loop"
  /\ txn' = <<>>
  /\ pc' = "crashed"
  /\ UNCHANGED <<db, all_content, stored_count, gateway_log, db_at_start, runs, reported,
                 qvars, fvars>>

\* a content table written by earlier ingestion runs
StoredRow(i, e) ==
  [id |-> i, source |-> "github", url |-> FileUrl(i),
   embedding |-> EmbeddingColumn(e)]

IdleIngest ==
  /\ pc = "idle" /\ all_content = <<>> /\ txn = <<>> /\ stored_count = 0
  /\ gateway_log = <<>> /\ db_at_start = <<>> /\ runs = 0 /\ reported = None

IdleFetch == fetch_in = None /\ fetch_out = None

IdleQuery ==
  /\ data = <<>> /\ embeddings = None /\ started = FALSE /\ request = None
  /\ top_k_indices = None /\ top_k_data = None /\ response = None

QueryInit ==
  /\ \E n \in 0 .. MaxDocs : \E es \in [1 .. n -> {Some(v) : v \in Vecs} \cup {None}] :
       /\ \A v \in Vecs : Cardinality({i \in 1 .. n : es[i] = Some(v)}) <= MaxCopies
       /\ db = [i \in 1 .. n |-> StoredRow(i, es[i])]
  /\ IdleQuery /\ IdleIngest /\ IdleFetch

QueryNext == LoadData \/ AnswerQuestion

SpecQuery == QueryInit /\ [][QueryNext]_vars

IngestInit == db = <<>> /\ IdleQuery /\ IdleIngest /\ IdleFetch

IngestNext == MainStart \/ MainStep \/ MainCommit \/ Crash

SpecIngest == IngestInit /\ [][IngestNext]_vars

FetchInit == db = <<>> /\ IdleQuery /\ IdleIngest /\ IdleFetch

FetchNext == FetchGithub \/ FetchDiscourse

SpecFetch == FetchInit /\ [][FetchNext]_vars

\* =================================================================
\* The query path (SpecQuery)
\* =================================================================
Req == Get(request)

Matrix == Get(embeddings)

Scores == similarities(Matrix, Req.q)

Indices == Get(top_k_indices)

Returned == Get(top_k_data)

Retrieved == top_k_indices # None

\* the request was answered: its links are the urls of top_k_data
Delivered == response # None /\ Get(response).status = "ok"

\* the documents that have an embedding, in table order: row i of the matrix
\* was computed from the i-th of them
EmbeddedDocuments == SelectSeq(data, LAMBDA d : d.embedding # None)

PresentCount == Cardinality({i \in 1 .. Len(db) : db[i].embedding # None})

\* C1: for every index i of the top-k selection, the document returned for i
\* is the document whose embedding is row i of the matrix.
C1_ReturnedDocumentOwnsRow ==
  Delivered =>
    \A j \in 1 .. Len(Indices) : Returned[j] = At(EmbeddedDocuments, Indices[j])

\* C2: every document in the top-k result has a present embedding.
C2_OnlyEmbeddedDocumentsReturned ==
  Delivered => \A j \in 1 .. Len(Returned) : Returned[j].embedding # None

\* C3: a query against the index built from N embedded documents returns
\* exactly min(5, N) documents, and with N = 0 an empty result, not an error.
C3_MinFiveOfN ==
  (request # None /\ embeddings # None /\ Req.embedOK /\ Req.genOK) =>
    /\ Get(response).status = "ok"
    /\ Len(Get(Get(response).links)) = Min(TopK, PresentCount)

RankedAhead(i, j) ==
  \/ At(Scores, i) > At(Scores, j)
  \/ At(Scores, i) = At(Scores, j) /\ i < j

Selected == {Indices[j] : j \in 1 .. Len(Indices)}

C9_FailureIsOneError ==
  (request # None /\ (~Req.embedOK \/ ~Req.genOK)) =>
    /\ response = ErrorResponse
    /\ Get(response).answer = None /\ Get(response).links = None
    /\ ~Req.embedOK => (top_k_indices = None /\ top_k_data = None)

\* the generation call fails after documents were retrieved
C9_Witness ==
  /\ request # None /\ Req.embedOK /\ ~Req.genOK
  /\ Retrieved /\ Len(Indices) > 0
  /\ response = ErrorResponse

\* =================================================================
\* Ingestion (SpecIngest)
\* =================================================================
\* the row main stores for the i-th fetched item
ExpectedRow(i) ==
  [id |-> Len(db_at_start) + i,
   source |-> all_content[i].source,
   url |-> all_content[i].url,
   embedding |-> IF gateway_log[i] THEN Some(json_dumps(EmbedOf(all_content[i]))) ELSE None]

\* C5: whatever the gateway answers, every item the loop has processed is
\* inserted exactly once, with its vector when the gateway answered and
\* without one when it failed; a completed run has stored every fetched item,
\* in order, and reported the number of fetched items.
C5_EveryItemStoredOnce ==
  /\ pc = "loop" =>
       /\ txn = [i \in 1 .. Len(gateway_log) |-> ExpectedRow(i)]
       /\ stored_count = Len(gateway_log)
  /\ pc = "done" =>
       /\ Len(gateway_log) = Len(all_content)
       /\ db = db_at_start \o [i \in 1 .. Len(all_content) |-> ExpectedRow(i)]
       /\ reported = Some(Len(all_content))

\* a completed run in which the gateway failed for one item and answered for another
C5_Witness ==
  /\ pc = "done"
  /\ \E i, j \in 1 .. Len(gateway_log) : ~gateway_log[i] /\ gateway_log[j]

\* C8: the table holds at most one row per (source, url), and ids are unique.
C8_OneRowPerDocument ==
  \A i, j \in 1 .. Len(db) :
    i # j => /\ db[i].id # db[j].id
             /\ ~(db[i].source = db[j].source /\ db[i].url = db[j].url)

\* C10 as stated: after a crash that followed j processed items, the table
\* holds the rows of earlier runs and those j documents.
C10_ProcessedItemsSurviveCrash ==
  pc = "crashed" =>
    /\ Len(db) = Len(db_at_start) + Len(gateway_log)
    /\ SubSeq(db, 1, Len(db_at_start)) = db_at_start

\* C10 as amended: the rows of earlier runs are never changed, and a run that
\* crashes before its commit leaves none of its own rows in the table.
C10_CrashLeavesEarlierRunsOnly ==
  /\ Len(db_at_start) <= Len(db)
  /\ SubSeq(db, 1, Len(db_at_start)) = db_at_start
  /\ pc \in {"loop", "crashed"} => db = db_at_start

\* a crash after at least one processed item, over a table an earlier run filled
C10_Witness ==
  /\ pc = "crashed"
  /\ Len(gateway_log) >= 1
  /\ Len(db_at_start) >= 1

\* =================================================================
\* The fetchers (SpecFetch)
\* =================================================================
In == Get(fetch_in)

Out == Get(fetch_out)

Transient(o) == o \in {"503", "http_error"}

\* what the call returns when its first request succeeds
FirstTryResult ==
  IF In.fetcher = "github"
  THEN IF DownloadRaises(In.files) THEN <<>> ELSE GithubContent(In.files)
  ELSE DiscoursePosts(In.topics, start_date, end_date)

RECURSIVE Leading503(_)
Leading503(tries) ==
  IF tries = <<>> \/ Head(tries) # "503" THEN 0 ELSE 1 + Leading503(Tail(tries))

Yielded(topic, post) ==
  \E k \in 1 .. Len(Out.result) : Out.result[k].url = PostUrl(topic.id, post.post_number)

\* C7: when every request of scrape_discourse succeeds, a post is yielded
\* exactly when its own creation day lies in [start_date, end_date].
C7_PostsOfTheWindowYielded ==
  (/\ fetch_in # None /\ In.fetcher = "discourse" /\ In.tries[1] = "ok"
   /\ \A t \in 1 .. Len(In.topics) : In.topics[t].fetch = "200") =>
    \A t \in 1 .. Len(In.topics) : \A p \in 1 .. Len(In.topics[t].posts) :
      Yielded(In.topics[t], In.topics[t].posts[p])
        <=> (start_date <= DateOf(In.topics[t].posts[p].created)
             /\ DateOf(In.topics[t].posts[p].created) <= end_date)
====
